---- MODULE Spec2Model ----
(***************************************************************************)
(* Real-time audio analysis pipeline of wcr_viz (src/src/audio).           *)
(*                                                                         *)
(* Numbers.  Samples, volumes and band energies are f32 in the source;     *)
(* here they are integers in a fixed-point unit ("levels"), and every      *)
(* quotient the beat detector forms (ratio, confidence, tempo) is an exact *)
(* rational <<numerator, denominator>> with a positive denominator.        *)
(* Wall-clock time (std::time::Instant) is an integer number of            *)
(* milliseconds since the analyzer was constructed.                        *)
(***************************************************************************)
EXTENDS Integers, Sequences, FiniteSets, TLC

VARIABLES
    \* ---- AudioAnalyzer (analysis.rs:64-88)
    input_buffer,      \* input_buffer: Vec<f32>, the sliding buffer
    volume_history,    \* volume_history: VecDeque<f32>
    bass_history,      \* bass_history: VecDeque<f32>
    tempo_buffer,      \* tempo_buffer: VecDeque<f32>, inter-beat intervals (ms)
    last_beat_time,    \* last_beat_time: Instant (ms)
    out,               \* what the last process_frame call returned
    \* ---- environment
    clock,             \* the wall clock, ms
    env,               \* the signal the session listens to
    frames,            \* process_frame calls so far
    odd,               \* frames so far that departed from the env's signal
    \* ---- history variables (never read by the modelled code)
    arrived,           \* every mono sample handed to update_input_buffer, in order
    vol_log,           \* every volume handed to update_history, in order
    bass_log,          \* every bass energy handed to update_history, in order
    interval_log,      \* every interval pushed to tempo_buffer, in order
    beat_times,        \* the clock reading of every accepted beat, in order
    \* ---- AudioSystem (mod.rs:61-73)
    is_running,        \* is_running: Arc<RwLock<bool>>
    events,            \* the AudioEvent channel, oldest first
    tasks,             \* the spawned audio_processing_loop tasks
    ctl,               \* the thread that calls start, stop and change_device
    calls,             \* start, stop and change_device calls so far
    \* ---- AudioCaptureSystem (capture.rs:13-20)
    frame_sender,      \* frame_sender: Option<Sender>, 0 or a channel
    sender_lock,       \* the RwLock around frame_sender
    current_stream,    \* current_stream: Option<Stream>, 0 or a stream
    is_capturing,      \* is_capturing: Arc<RwLock<bool>>
    channels,          \* every frame channel capture start() has created
    streams,           \* every input stream built, each with its callback
    captured,          \* frames the callbacks have built so far
    \* ---- history variables of the processing loops
    dequeued,          \* [task, id] of every frame a loop received, in order
    analysed,           \* [task, id, ok] of every process_frame call of a loop
    \* ---- start-up (main.rs:54-99) and single calls of the analyzer's functions
    config,            \* the AudioConfig main has loaded
    boot,              \* how far main has come
    call,              \* the function last called and its arguments
    ret                \* what that call returned

avars == <<input_buffer, volume_history, bass_history, tempo_buffer,
           last_beat_time, out>>
evars == <<clock, env, frames, odd>>
hvars == <<arrived, vol_log, bass_log, interval_log, beat_times>>
svars == <<is_running, events, tasks, ctl, calls, frame_sender, sender_lock,
           current_stream, is_capturing, channels, streams, captured,
           dequeued, analysed>>
uvars == <<config, boot, call, ret>>
vars == <<avars, evars, hvars, svars, uvars>>

----------------------------------------------------------------------------
(* Bounds of the model *)

\* config.buffer_size of the session that is checked
BufferSize == 2
\* process_frame calls of a session under Spec
MaxFrames == 14
\* frames of a session under Spec that may depart from the env's signal
MaxOdd == 1
\* process_frame calls of a session under SpecLong
LongFrames == 103
\* process_frame calls of a session under SpecFade
FadeFrames == 22
\* process_frame calls of a session under SpecBuf
BufFrames == 2
\* start, stop and change_device calls of a session under SpecSys
MaxCalls == 2
MaxTasks == 1
\* the largest buffer_size and fft_size a configuration file holds under SpecMain
MaxSize == 8
\* samples and channels of a frame handed to convert_to_mono under SpecCalls
MaxSamples == 4
MaxChannels == 3
\* bins of a spectrum and levels of a magnitude under SpecCalls
MaxBins == 3
\* the largest buffer_size and fft_size of a prepare_fft_input call under SpecCalls
MaxFft == 3
MaxMag == 3
\* frames the capture callbacks build under SpecSys
MaxCaptured == 2

----------------------------------------------------------------------------
(* Program constants *)

\* detect_beat: `volume_history.len() > 10 && bass_history.len() > 10`
HistoryMin == 10
\* detect_beat: `.iter().rev().take(5).sum::<f32>() / 5.0`
RecentCount == 5
\* detect_beat: `time_since_last > 0.1`, in ms
BeatMinGapMs == 100
\* detect_beat: `self.tempo_buffer.len() > 32`
TempoCapacity == 32
\* estimate_tempo: `self.tempo_buffer.len() < 4`
TempoMinIntervals == 4
\* update_history: `let max_history = 100`
MaxHistory == 100
\* detect_beat: `volume_ratio > 1.5`
VolumeRatioMin == <<3, 2>>
\* detect_beat: `bass_ratio > 1.3`
BassRatioMin == <<13, 10>>
\* detect_beat: `beat_confidence > 0.3`
AcceptMin == <<3, 10>>

----------------------------------------------------------------------------
(* Exact rationals <<n, d>>, d > 0 *)

Zero == <<0, 1>>
One == <<1, 1>>
RatGt(a, b) == a[1] * b[2] > b[1] * a[2]
RatEq(a, b) == a[1] * b[2] = b[1] * a[2]
RatAdd(a, b) == <<a[1] * b[2] + b[1] * a[2], a[2] * b[2]>>
RatSub(a, b) == <<a[1] * b[2] - b[1] * a[2], a[2] * b[2]>>
RatHalf(a) == <<a[1], 2 * a[2]>>
RatMin(a, b) == IF RatGt(a, b) THEN b ELSE a

RECURSIVE Gcd(_, _)
Gcd(a, b) == IF b = 0 THEN a ELSE Gcd(b, a % b)

\* n/d in lowest terms (n >= 0, d > 0)
Reduced(n, d) == <<n \div Gcd(n, d), d \div Gcd(n, d)>>

----------------------------------------------------------------------------
(* Sequences *)

RECURSIVE SeqSum(_)
SeqSum(s) == IF s = <<>> THEN 0 ELSE Head(s) + SeqSum(Tail(s))

\* the last n elements of s (all of s when it is shorter)
LastN(s, n) == IF Len(s) <= n THEN s ELSE SubSeq(s, Len(s) - n + 1, Len(s))

Zeros(n) == [i \in 1..n |-> 0]

\* the largest r with r * r <= n
ISqrt(n) == CHOOSE r \in 0..n : r * r <= n /\ (r + 1) * (r + 1) > n

----------------------------------------------------------------------------
(* AudioAnalyzer: the pure steps of process_frame *)

\* slice.copy_within(src.., 0): the tail that starts at index src (0-based)
\* moves to the front, the rest stays as it was
CopyWithin(buf, src) ==
    [i \in 1..Len(buf) |-> IF i <= Len(buf) - src THEN buf[i + src] ELSE buf[i]]

\* buf[start..].copy_from_slice(new), start 0-based
CopyFromSliceAt(buf, start, new) ==
    [i \in 1..Len(buf) |-> IF i > start THEN new[i - start] ELSE buf[i]]

\* (mutant) the replace branch keeps the head of the chunk, not its tail
UpdateInputBufferHead(buf, new_samples) ==
    LET buffer_size == Len(buf)
        new_size == Len(new_samples)
    IN  IF new_size >= buffer_size
        THEN SubSeq(new_samples, 1, buffer_size)
        ELSE CopyFromSliceAt(CopyWithin(buf, new_size),
                             buffer_size - new_size, new_samples)

UpdateInputBuffer(buf, new_samples) ==
    LET buffer_size == Len(buf)
        new_size == Len(new_samples)
    IN  IF new_size >= buffer_size
        THEN \* Replace entire buffer
             SubSeq(new_samples, new_size - buffer_size + 1, new_size)
        ELSE \* Shift existing data and append new samples
             CopyFromSliceAt(CopyWithin(buf, new_size),
                             buffer_size - new_size, new_samples)

\* extract_features: RMS volume, rounded down to a whole level
Volume(waveform) ==
    IF waveform # <<>>
    THEN ISqrt(SeqSum([i \in 1..Len(waveform) |-> waveform[i] * waveform[i]])
               \div Len(waveform))
    ELSE 0

\* `.iter().rev().take(5).sum()`
RecentSum(history) == SeqSum(LastN(history, RecentCount))

\* `if avg > 0.0 { current / avg } else { 1.0 }`, avg = sum / 5.0
Ratio(current, sum) == IF sum > 0 THEN <<RecentCount * current, sum>> ELSE One

\* (mutant) one entry too few is required
EnoughHistoryTen(vh, bh) == Len(vh) > HistoryMin - 1 /\ Len(bh) > HistoryMin - 1

\* `self.volume_history.len() > 10 && self.bass_history.len() > 10`
EnoughHistory(vh, bh) == Len(vh) > HistoryMin /\ Len(bh) > HistoryMin

\* (mutant) either ratio alone makes a candidate
IsCandidateEither(volume_ratio, bass_ratio) ==
    RatGt(volume_ratio, VolumeRatioMin) \/ RatGt(bass_ratio, BassRatioMin)

\* `volume_ratio > 1.5 && bass_ratio > 1.3`
IsCandidate(volume_ratio, bass_ratio) ==
    RatGt(volume_ratio, VolumeRatioMin) /\ RatGt(bass_ratio, BassRatioMin)

\* (mutant) the gap is compared in the wrong unit
DebounceOkUnit(time_since_last) == time_since_last * 1000 > BeatMinGapMs

\* `time_since_last > 0.1`
DebounceOk(time_since_last) == time_since_last > BeatMinGapMs

\* (mutant) every reported beat is recorded
IsAcceptedAny(beat_confidence) == RatGt(beat_confidence, Zero)

\* `beat_confidence > 0.3`
IsAccepted(beat_confidence) == RatGt(beat_confidence, AcceptMin)

\* push_back, then pop_front when longer than cap
PushBounded(q, x, cap) ==
    LET pushed == Append(q, x)
    IN  IF Len(pushed) > cap THEN Tail(pushed) ELSE pushed

\* (mutant) the tempo history starts over once it holds 4 intervals
PushIntervalRestart(tb, x) ==
    IF Len(tb) >= TempoMinIntervals THEN <<x>> ELSE Append(tb, x)

\* `self.tempo_buffer.push_back(time_since_last)`, bounded to 32
PushInterval(tb, x) == PushBounded(tb, x, TempoCapacity)

\* `((volume_ratio - 1.5) + (bass_ratio - 1.3)) / 2.0`, then `.min(1.0)`
Confidence(volume_ratio, bass_ratio) ==
    RatMin(RatHalf(RatAdd(RatSub(volume_ratio, VolumeRatioMin),
                          RatSub(bass_ratio, BassRatioMin))), One)

\* detect_beat: the confidence it returns and the beat state it leaves
DetectBeat(vh, bh, tb, lbt, current_volume, current_bass, now) ==
    LET none == [beat_confidence |-> Zero, tempo_buffer |-> tb,
                 last_beat_time |-> lbt, accepted |-> FALSE]
    IN  IF EnoughHistory(vh, bh)
        THEN LET volume_ratio == Ratio(current_volume, RecentSum(vh))
                 bass_ratio == Ratio(current_bass, RecentSum(bh))
                 time_since_last == now - lbt
                 beat_confidence == Confidence(volume_ratio, bass_ratio)
             IN  IF IsCandidate(volume_ratio, bass_ratio)
                 THEN IF DebounceOk(time_since_last)
                      THEN IF IsAccepted(beat_confidence)
                           THEN [beat_confidence |-> beat_confidence,
                                 tempo_buffer |->
                                     PushInterval(tb, time_since_last),
                                 last_beat_time |-> now,
                                 accepted |-> TRUE]
                           ELSE [none EXCEPT
                                     !.beat_confidence = beat_confidence]
                      ELSE none
                 ELSE none
        ELSE none

\* (mutant) a fifth interval is required
EstimateTempoFive(tb) ==
    IF Len(tb) <= TempoMinIntervals
    THEN Zero
    ELSE IF SeqSum(tb) > 0 THEN Reduced(60000 * Len(tb), SeqSum(tb)) ELSE Zero

\* estimate_tempo: 60 / (mean interval in seconds), intervals kept in ms
EstimateTempo(tb) ==
    IF Len(tb) < TempoMinIntervals
    THEN Zero
    ELSE IF SeqSum(tb) > 0 THEN Reduced(60000 * Len(tb), SeqSum(tb)) ELSE Zero

\* (mutant) the frame's own value is appended before detect_beat reads
HistoryReadAppended(history, x) == Append(history, x)

\* process_frame calls extract_features (and in it detect_beat) before
\* update_history: detect_beat reads the history without the frame's value x
HistoryRead(history, x) == history

\* (mutant) the newest entry is dropped when the history is full
UpdateHistoryKeepOld(history, x) ==
    IF Len(history) >= MaxHistory THEN history ELSE Append(history, x)

\* update_history, one history
UpdateHistory(history, x) == PushBounded(history, x, MaxHistory)

----------------------------------------------------------------------------
(* AudioAnalyzer::new and AudioAnalyzer::process_frame *)

NoFrame == [kind |-> "none"]

\* the analyzer and the history variables right after AudioAnalyzer::new
InitAnalyzer ==
    /\ input_buffer = Zeros(BufferSize)
    /\ volume_history = <<>>
    /\ bass_history = <<>>
    /\ tempo_buffer = <<>>
    /\ last_beat_time = 0
    /\ out = NoFrame
    /\ clock = 0
    /\ frames = 0
    /\ odd = 0
    /\ arrived = <<>>
    /\ vol_log = <<>>
    /\ bass_log = <<>>
    /\ interval_log = <<>>
    /\ beat_times = <<>>

\* a thread that is not inside any call
Idle == [pc |-> "idle", op |-> "none", ret |-> "none", ch |-> 0, st |-> 0,
         frame |-> NoFrame, data |-> NoFrame]

\* the audio system right after AudioSystem::new (with its capture system)
InitSystem ==
    /\ is_running = FALSE
    /\ events = <<>>
    /\ tasks = <<>>
    /\ ctl = Idle
    /\ calls = 0
    /\ frame_sender = 0
    /\ sender_lock = -1
    /\ current_stream = 0
    /\ is_capturing = FALSE
    /\ channels = <<>>
    /\ streams = <<>>
    /\ captured = 0
    /\ dequeued = <<>>
    /\ analysed = <<>>

\* Config::default (config/mod.rs:96-104), the audio part
DefaultConfig == [sample_rate |-> 44100, buffer_size |-> 1024, fft_size |-> 2048]
NoCall == [fn |-> "none"]

\* main has built the AudioSystem from the default configuration; none of
\* the analyzer's functions has been called on its own
InitBooted ==
    /\ config = DefaultConfig
    /\ boot = "constructed"
    /\ call = NoCall
    /\ ret = NoCall

\* (mutant) a failed transform undoes the frame's buffer update
BufferAfterRolledBack(buf, mono, fft_ok) ==
    IF fft_ok THEN UpdateInputBuffer(buf, mono) ELSE buf

\* process_frame updates the sliding buffer before perform_fft and returns
\* early on its error: the buffer is the same whether the transform fails
BufferAfter(buf, mono, fft_ok) == UpdateInputBuffer(buf, mono)

\* process_frame on a frame captured at `timestamp` whose downmix is `mono`.
\* The transform is the realfft engine's: it fails (fft_ok = FALSE) or gives
\* a spectrum whose 60-250 Hz band energy is `bass`.  `now` is what
\* Instant::now() reads inside detect_beat.
ProcessFrame(timestamp, mono, bass, fft_ok, now) ==
    /\ input_buffer' = BufferAfter(input_buffer, mono, fft_ok)
    /\ UNCHANGED uvars
    /\ arrived' = arrived \o mono
    /\ IF ~fft_ok
       THEN \* `let spectrum = self.perform_fft()?;`
            /\ out' = [kind |-> "err", timestamp |-> timestamp]
            /\ UNCHANGED <<volume_history, bass_history, tempo_buffer,
                           last_beat_time, vol_log, bass_log, interval_log,
                           beat_times>>
       ELSE LET volume == Volume(mono)
                beat == DetectBeat(HistoryRead(volume_history, volume),
                                   HistoryRead(bass_history, bass),
                                   tempo_buffer, last_beat_time, volume, bass,
                                   now)
                tempo == EstimateTempo(beat.tempo_buffer)
            IN  /\ tempo_buffer' = beat.tempo_buffer
                /\ last_beat_time' = beat.last_beat_time
                /\ volume_history' = UpdateHistory(volume_history, volume)
                /\ bass_history' = UpdateHistory(bass_history, bass)
                /\ out' = [kind |-> "ok", timestamp |-> timestamp,
                           waveform |-> mono, volume |-> volume, bass |-> bass,
                           beat_confidence |-> beat.beat_confidence,
                           tempo |-> tempo]
                /\ vol_log' = Append(vol_log, volume)
                /\ bass_log' = Append(bass_log, bass)
                /\ interval_log' = IF beat.accepted
                                   THEN Append(interval_log, now - last_beat_time)
                                   ELSE interval_log
                /\ beat_times' = IF beat.accepted
                                 THEN Append(beat_times, now)
                                 ELSE beat_times

----------------------------------------------------------------------------
(* The environment: what the session listens to *)

\* the signals a session may listen to: [chunk, bass] of the k-th frame and
\* the time between two frames
Silence == [name |-> "silence", period |-> 50]
Quiet == [name |-> "quiet", period |-> 50]
Track == [name |-> "track", period |-> 60]
SlowTrack == [name |-> "track", period |-> 250]
Unscripted == [name |-> "none", period |-> 0]

EnvInput(e, k) ==
    CASE e.name = "silence" -> [chunk |-> <<0>>, bass |-> 0]
      [] e.name = "quiet" -> [chunk |-> <<10>>, bass |-> 10]
      [] OTHER -> IF k % 2 = 0 THEN [chunk |-> <<40>>, bass |-> 40]
                              ELSE [chunk |-> <<10>>, bass |-> 10]

\* what a frame that departs from the signal may carry
OddSignals ==
    {[chunk |-> <<>>, bass |-> 0],
     [chunk |-> <<>>, bass |-> 40],
     [chunk |-> <<-16>>, bass |-> 14],
     [chunk |-> <<40, -40, 40>>, bass |-> 0],
     [chunk |-> <<40, -40, 40>>, bass |-> 40]}
OddGaps == {20, 150}

\* a frame of the env's signal, one period after the previous frame
EnvFrame(limit) ==
    /\ frames < limit
    /\ LET in == EnvInput(env, frames + 1)
           now == clock + env.period
       IN  /\ clock' = now
           /\ ProcessFrame(clock, in.chunk, in.bass, TRUE, now)
    /\ frames' = frames + 1
    /\ UNCHANGED <<env, odd, svars>>

\* a frame that departs from the signal, soon or late after the previous
\* one, with a transform that may fail
OddFrame(limit, budget) ==
    /\ frames < limit
    /\ odd < budget
    /\ \E in \in OddSignals, gap \in OddGaps, fft_ok \in BOOLEAN :
          /\ fft_ok \/ in.bass = 40
          /\ clock' = clock + gap
          /\ ProcessFrame(clock, in.chunk, in.bass, fft_ok, clock + gap)
    /\ frames' = frames + 1
    /\ odd' = odd + 1
    /\ UNCHANGED <<env, svars>>

\* the frames of a long session at which a glitch may happen
GlitchSlots == {13, 60, 102}

\* a glitch in a long session: a silent or a late frame, or a failed transform
GlitchFrame ==
    /\ frames < LongFrames
    /\ frames + 1 \in GlitchSlots
    /\ \E in \in {[chunk |-> <<>>, bass |-> 0, gap |-> 250, fft_ok |-> TRUE],
                  [chunk |-> <<40>>, bass |-> 40, gap |-> 1000, fft_ok |-> TRUE],
                  [chunk |-> <<40>>, bass |-> 40, gap |-> 250, fft_ok |-> FALSE]} :
          /\ clock' = clock + in.gap
          /\ ProcessFrame(clock, in.chunk, in.bass, in.fft_ok,
                          clock + in.gap)
    /\ frames' = frames + 1
    /\ odd' = odd + 1
    /\ UNCHANGED <<env, svars>>

\* the music stops: from here on the session listens to silence
GoSilent ==
    /\ env.name = "track"
    /\ env' = [Silence EXCEPT !.period = env.period]
    /\ UNCHANGED <<avars, hvars, svars, uvars, clock, frames, odd>>

\* a frame of the env's signal whose transform fails
FailedFrame(limit, budget) ==
    /\ frames < limit
    /\ odd < budget
    /\ LET in == EnvInput(env, frames + 1)
           now == clock + env.period
       IN  /\ clock' = now
           /\ ProcessFrame(clock, in.chunk, in.bass, FALSE, now)
    /\ frames' = frames + 1
    /\ odd' = odd + 1
    /\ UNCHANGED <<env, svars>>

\* any chunk over two sample values, up to one sample longer than the buffer
BufChunks ==
    UNION {[1..n -> {1, 2}] : n \in 0..(BufferSize + 1)}

AnyChunkFrame ==
    /\ frames < BufFrames
    /\ \E chunk \in BufChunks, fft_ok \in BOOLEAN :
          ProcessFrame(clock, chunk, 0, fft_ok, clock)
    /\ frames' = frames + 1
    /\ UNCHANGED <<clock, env, odd, svars>>

----------------------------------------------------------------------------
(* The audio system: capture callbacks, processing loops, start and stop *)

\* Threads: 0 is the thread that calls the AudioSystem, t >= 1 is the
\* processing task tasks[t].  Each is a record: pc (where it is), op (the call
\* the caller is in), ret (where capture start() returns to), ch and st (the
\* channel and the stream capture start() has made), frame (the frame a loop
\* holds) and data (the AudioData process_frame returned).
Threads == 0..Len(tasks)
Rec(w) == IF w = 0 THEN ctl ELSE tasks[w]
SetRec(w, r) ==
    IF w = 0 THEN ctl' = r /\ UNCHANGED tasks
             ELSE tasks' = [tasks EXCEPT ![w] = r] /\ UNCHANGED ctl

\* what the threads of the audio system leave alone
analyzer_side == <<avars, evars, hvars, uvars>>

\* dropping the only Sender of a channel disconnects it for the receiver
DropSender(chs, c) == IF c = 0 THEN chs ELSE [chs EXCEPT ![c].tx_alive = FALSE]
\* dropping the Receiver makes every later try_send fail
DropReceiver(chs, c) == IF c = 0 THEN chs ELSE [chs EXCEPT ![c].rx_alive = FALSE]
\* dropping a cpal Stream stops it; the drop waits for a callback in flight
CanDropStream(st) == IF st = 0 THEN TRUE ELSE streams[st].cb = "idle"
DropStream(sts, st) == IF st = 0 THEN sts ELSE [sts EXCEPT ![st].alive = FALSE]

\* the lock around frame_sender: the thread that holds it for writing, or -1.
\* A callback holds it for reading only within its one step.
LockFree == sender_lock = -1

\* ---- AudioCaptureSystem::start (capture.rs:43-67)

\* `self.frame_sender.write()`: wait for the write lock
CsLock(w) ==
    /\ Rec(w).pc = "cs_lock"
    /\ LockFree
    /\ sender_lock' = w
    /\ SetRec(w, [Rec(w) EXCEPT !.pc = "cs_sender"])
    /\ UNCHANGED <<analyzer_side, is_running, events, calls, frame_sender,
                   current_stream, is_capturing, channels, streams, captured,
                   dequeued, analysed>>

\* `let (sender, receiver) = unbounded(); *guard = Some(sender);`
\* the previous sender is dropped, the lock released
CsSender(w) ==
    /\ Rec(w).pc = "cs_sender"
    /\ channels' = Append(DropSender(channels, frame_sender),
                          [queue |-> <<>>, tx_alive |-> TRUE, rx_alive |-> TRUE])
    /\ frame_sender' = Len(channels) + 1
    /\ sender_lock' = -1
    /\ SetRec(w, [Rec(w) EXCEPT !.pc = "cs_stream", !.ch = Len(channels) + 1])
    /\ UNCHANGED <<analyzer_side, is_running, events, calls, current_stream,
                   is_capturing, streams, captured, dequeued, analysed>>

\* start() returned Err in thread w: its receiver is gone; a processing task
\* reports the error and ends, change_device returns the error
CaptureFailed(w) ==
    /\ channels' = DropReceiver(channels, Rec(w).ch)
    /\ IF w = 0
       THEN ctl' = Idle /\ UNCHANGED <<tasks, events>>
       ELSE /\ tasks' = [tasks EXCEPT ![w].pc = "ended"]
            /\ events' = Append(events, [kind |-> "Error", task |-> w,
                                         msg |-> "Capture failed"])
            /\ UNCHANGED ctl

\* `self.get_capture_device()?`, `self.get_device_config(&device)?`,
\* `self.create_audio_stream(&device, &config)?` and `stream.play()?`: any of
\* them may fail; once they succeed the new stream's callback may run
CsStream(w) ==
    /\ Rec(w).pc = "cs_stream"
    /\ \/ /\ streams' = Append(streams, [alive |-> TRUE, cb |-> "idle",
                                         frame |-> NoFrame])
          /\ SetRec(w, [Rec(w) EXCEPT !.pc = "cs_store",
                                      !.st = Len(streams) + 1])
          /\ UNCHANGED <<channels, events>>
       \/ CaptureFailed(w) /\ UNCHANGED streams
    /\ UNCHANGED <<analyzer_side, is_running, calls, frame_sender, sender_lock,
                   current_stream, is_capturing, captured, dequeued, analysed>>

\* `*self.current_stream.write() = Some(stream)`: the previous stream drops;
\* `*self.is_capturing.write() = true; Ok(receiver)`
CsStore(w) ==
    /\ Rec(w).pc = "cs_store"
    /\ CanDropStream(current_stream)
    /\ streams' = DropStream(streams, current_stream)
    /\ current_stream' = Rec(w).st
    /\ is_capturing' = TRUE
    /\ SetRec(w, [Rec(w) EXCEPT !.pc = Rec(w).ret])
    /\ UNCHANGED <<analyzer_side, is_running, events, calls, frame_sender,
                   sender_lock, channels, captured, dequeued, analysed>>

\* ---- AudioCaptureSystem::stop (capture.rs:70-86)

\* `*self.is_capturing.write() = false`;
\* `*self.current_stream.write() = None` (and current_device)
CxStream(w) ==
    /\ Rec(w).pc = "cx_stream"
    /\ CanDropStream(current_stream)
    /\ streams' = DropStream(streams, current_stream)
    /\ current_stream' = 0
    /\ is_capturing' = FALSE
    /\ SetRec(w, [Rec(w) EXCEPT !.pc = "cx_lock"])
    /\ UNCHANGED <<analyzer_side, is_running, events, calls, frame_sender,
                   sender_lock, channels, captured, dequeued, analysed>>

\* `self.frame_sender.write()`: wait for the write lock
CxLock(w) ==
    /\ Rec(w).pc = "cx_lock"
    /\ LockFree
    /\ sender_lock' = w
    /\ SetRec(w, [Rec(w) EXCEPT !.pc = "cx_clear"])
    /\ UNCHANGED <<analyzer_side, is_running, events, calls, frame_sender,
                   current_stream, is_capturing, channels, streams, captured,
                   dequeued, analysed>>

\* (mutant) the sender is left in place when capture stops
CxClearKeep(w) ==
    /\ Rec(w).pc = "cx_clear"
    /\ sender_lock' = -1
    /\ SetRec(w, IF Rec(w).op = "change"
                 THEN [Rec(w) EXCEPT !.pc = "cs_lock", !.ret = "chg_done"]
                 ELSE Idle)
    /\ UNCHANGED <<analyzer_side, is_running, events, calls, frame_sender,
                   channels, current_stream, is_capturing, streams, captured,
                   dequeued, analysed>>

\* `*guard = None`: the sender is dropped, the lock released; stop() returns
\* to its caller, change_device goes on to set_device and start()
CxClear(w) ==
    /\ Rec(w).pc = "cx_clear"
    /\ channels' = DropSender(channels, frame_sender)
    /\ frame_sender' = 0
    /\ sender_lock' = -1
    /\ SetRec(w, IF Rec(w).op = "change"
                 THEN [Rec(w) EXCEPT !.pc = "cs_lock", !.ret = "chg_done"]
                 ELSE Idle)
    /\ UNCHANGED <<analyzer_side, is_running, events, calls, current_stream,
                   is_capturing, streams, captured, dequeued, analysed>>

\* ---- the capture callback (capture.rs:290-306)

\* `if let Some(sender) = guard.as_ref() { let _ = sender.try_send(frame) }`
\* on an unbounded channel: the frame is queued, or dropped when there is no
\* sender or the receiver is gone
TrySend(chs, frame) ==
    IF frame_sender # 0 /\ chs[frame_sender].rx_alive
    THEN [chs EXCEPT ![frame_sender].queue = Append(@, frame)]
    ELSE chs

\* `let timestamp = Instant::now(); let frame = AudioFrame { .. }` and then
\* `frame_sender.read()`: unless a writer holds the lock the callback reads
\* the sender, sends and returns; otherwise it waits for the writer.  The
\* monotonic clock has moved on since the last frame.
CbCapture(st) ==
    /\ streams[st].alive
    /\ streams[st].cb = "idle"
    /\ captured < MaxCaptured
    /\ clock' = clock + 1
    /\ captured' = captured + 1
    /\ LET frame == [id |-> captured + 1, timestamp |-> clock',
                     samples |-> <<10>>]
       IN  IF sender_lock = -1
           THEN /\ channels' = TrySend(channels, frame)
                /\ UNCHANGED streams
           ELSE /\ streams' = [streams EXCEPT ![st].cb = "waiting",
                                              ![st].frame = frame]
                /\ UNCHANGED channels
    /\ UNCHANGED <<avars, hvars, uvars, env, frames, odd, is_running, events,
                   tasks, ctl, calls, frame_sender, sender_lock,
                   current_stream, is_capturing, dequeued, analysed>>

\* the waiting callback gets the read lock once the writer has released it,
\* sends and returns
CbSend(st) ==
    /\ streams[st].cb = "waiting"
    /\ sender_lock = -1
    /\ channels' = TrySend(channels, streams[st].frame)
    /\ streams' = [streams EXCEPT ![st].cb = "idle", ![st].frame = NoFrame]
    /\ UNCHANGED <<analyzer_side, is_running, events, tasks, ctl, calls,
                   frame_sender, sender_lock, current_stream, is_capturing,
                   captured, dequeued, analysed>>

\* ---- AudioSystem::audio_processing_loop (mod.rs:167-216)

\* `while *is_running.read()`
LoopCheck(t) ==
    /\ tasks[t].pc = "check"
    /\ IF is_running
       THEN tasks' = [tasks EXCEPT ![t].pc = "recv"] /\ UNCHANGED channels
       ELSE /\ tasks' = [tasks EXCEPT ![t].pc = "ended"]
            /\ channels' = DropReceiver(channels, tasks[t].ch)
    /\ UNCHANGED <<analyzer_side, is_running, events, ctl, calls, frame_sender,
                   sender_lock, current_stream, is_capturing, streams,
                   captured, dequeued, analysed>>

\* `frame_receiver.recv()`: the oldest queued frame, an error once the channel
\* is empty and its sender dropped, and a wait otherwise
LoopRecv(t) ==
    /\ tasks[t].pc = "recv"
    /\ LET c == channels[tasks[t].ch]
       IN  IF c.queue # <<>>
           THEN /\ tasks' = [tasks EXCEPT ![t].pc = "process",
                                          ![t].frame = Head(c.queue)]
                /\ channels' = [channels EXCEPT ![tasks[t].ch].queue = Tail(@)]
                /\ dequeued' = Append(dequeued, [task |-> t,
                                                 id |-> Head(c.queue).id])
           ELSE /\ ~c.tx_alive
                /\ tasks' = [tasks EXCEPT ![t].pc = "rx_err"]
                /\ UNCHANGED <<channels, dequeued>>
    /\ UNCHANGED <<analyzer_side, is_running, events, ctl, calls, frame_sender,
                   sender_lock, current_stream, is_capturing, streams,
                   captured, analysed>>

\* a loop that reports a failed frame like any other
LoopProcessReport(t) ==
    /\ tasks[t].pc = "process"
    /\ \E fft_ok \in BOOLEAN :
          /\ fft_ok \/ odd < MaxOdd
          /\ odd' = IF fft_ok THEN odd ELSE odd + 1
          /\ ProcessFrame(tasks[t].frame.timestamp, tasks[t].frame.samples,
                          10, fft_ok, clock)
          /\ analysed' = Append(analysed,
                 [task |-> t, id |-> tasks[t].frame.id,
                  timestamp |-> tasks[t].frame.timestamp, ok |-> fft_ok])
          /\ tasks' = [tasks EXCEPT ![t].pc = "send", ![t].data = out']
    /\ frames' = frames + 1
    /\ UNCHANGED <<clock, env, is_running, events, ctl, calls,
                   frame_sender, sender_lock, current_stream, is_capturing,
                   channels, streams, captured, dequeued>>

\* `analyzer.write().process_frame(&frame)`: Ok(data) goes on to the send,
\* Err(e) is logged and the loop continues
LoopProcess(t) ==
    /\ tasks[t].pc = "process"
    /\ \E fft_ok \in BOOLEAN :
          /\ fft_ok \/ odd < MaxOdd
          /\ odd' = IF fft_ok THEN odd ELSE odd + 1
          /\ ProcessFrame(tasks[t].frame.timestamp, tasks[t].frame.samples,
                          10, fft_ok, clock)
          /\ analysed' = Append(analysed,
                 [task |-> t, id |-> tasks[t].frame.id,
                  timestamp |-> tasks[t].frame.timestamp, ok |-> fft_ok])
          /\ tasks' = IF fft_ok
                      THEN [tasks EXCEPT ![t].pc = "send", ![t].data = out']
                      ELSE [tasks EXCEPT ![t].pc = "check"]
    /\ frames' = frames + 1
    /\ UNCHANGED <<clock, env, is_running, events, ctl, calls,
                   frame_sender, sender_lock, current_stream, is_capturing,
                   channels, streams, captured, dequeued>>

\* a loop that analyses a frame and sends nothing
LoopSendNone(t) ==
    /\ tasks[t].pc = "send"
    /\ tasks' = [tasks EXCEPT ![t].pc = "check"]
    /\ UNCHANGED <<analyzer_side, is_running, events, ctl, calls, frame_sender,
                   sender_lock, current_stream, is_capturing, channels,
                   streams, captured, dequeued, analysed>>

\* `event_sender.send(AudioEvent::DataReady(audio_data))`; the AudioSystem
\* keeps a receiver of the event channel, so the send succeeds
LoopSend(t) ==
    /\ tasks[t].pc = "send"
    /\ events' = Append(events, [kind |-> "DataReady", task |-> t,
                                 id |-> tasks[t].frame.id,
                                 timestamp |-> tasks[t].data.timestamp])
    /\ tasks' = [tasks EXCEPT ![t].pc = "check"]
    /\ UNCHANGED <<analyzer_side, is_running, ctl, calls, frame_sender,
                   sender_lock, current_stream, is_capturing, channels,
                   streams, captured, dequeued, analysed>>

\* `Err(e) => { if *is_running.read() { send(Error) } break }`
LoopRxErr(t) ==
    /\ tasks[t].pc = "rx_err"
    /\ events' = IF is_running
                 THEN Append(events, [kind |-> "Error", task |-> t,
                                      msg |-> "Receive error"])
                 ELSE events
    /\ tasks' = [tasks EXCEPT ![t].pc = "ended"]
    /\ channels' = DropReceiver(channels, tasks[t].ch)
    /\ UNCHANGED <<analyzer_side, is_running, ctl, calls, frame_sender,
                   sender_lock, current_stream, is_capturing, streams,
                   captured, dequeued, analysed>>

\* ---- AudioSystem::start, stop and change_device (mod.rs:95-164)

\* start: `*self.is_running.write() = true`, then
\* `tokio::spawn(audio_processing_loop(..))`; the task begins with
\* `capture_system.start().await`
Start(limit) ==
    /\ ctl.pc = "idle"
    /\ calls < MaxCalls
    /\ Len(tasks) < limit
    /\ calls' = calls + 1
    /\ is_running' = TRUE
    /\ tasks' = Append(tasks, [Idle EXCEPT !.pc = "cs_lock", !.op = "loop",
                                           !.ret = "check"])
    /\ UNCHANGED <<analyzer_side, events, ctl, frame_sender, sender_lock,
                   current_stream, is_capturing, channels, streams, captured,
                   dequeued, analysed>>

\* start called once more, after a stop() has returned
Restart ==
    /\ ctl.pc = "idle"
    /\ ~is_running
    /\ Len(tasks) > 0
    /\ calls <= MaxCalls
    /\ Len(tasks) <= MaxTasks
    /\ calls' = calls + 1
    /\ is_running' = TRUE
    /\ tasks' = Append(tasks, [Idle EXCEPT !.pc = "cs_lock", !.op = "loop",
                                           !.ret = "check"])
    /\ UNCHANGED <<analyzer_side, events, ctl, frame_sender, sender_lock,
                   current_stream, is_capturing, channels, streams, captured,
                   dequeued, analysed>>

\* stop: `*self.is_running.write() = false`, then capture_system.stop()
Stop ==
    /\ ctl.pc = "idle"
    /\ calls < MaxCalls
    /\ calls' = calls + 1
    /\ is_running' = FALSE
    /\ ctl' = [Idle EXCEPT !.pc = "cx_stream", !.op = "stop"]
    /\ UNCHANGED <<analyzer_side, events, tasks, frame_sender, sender_lock,
                   current_stream, is_capturing, channels, streams, captured,
                   dequeued, analysed>>

\* change_device: capture_system.stop(), set_device (which does nothing),
\* then capture_system.start()
ChangeDevice ==
    /\ ctl.pc = "idle"
    /\ calls < MaxCalls
    /\ calls' = calls + 1
    /\ ctl' = [Idle EXCEPT !.pc = "cx_stream", !.op = "change"]
    /\ UNCHANGED <<analyzer_side, is_running, events, tasks, frame_sender,
                   sender_lock, current_stream, is_capturing, channels,
                   streams, captured, dequeued, analysed>>

\* change_device, after start() returned Ok: the receiver it returned is
\* dropped, DeviceChanged is sent
ChgDone ==
    /\ ctl.pc = "chg_done"
    /\ channels' = DropReceiver(channels, ctl.ch)
    /\ events' = Append(events, [kind |-> "DeviceChanged", task |-> 0])
    /\ ctl' = Idle
    /\ UNCHANGED <<analyzer_side, is_running, tasks, calls, frame_sender,
                   sender_lock, current_stream, is_capturing, streams,
                   captured, dequeued, analysed>>

----------------------------------------------------------------------------
(* Start-up: main loads the configuration and builds the audio system *)

\* usize::is_power_of_two: false for 0
RECURSIVE IsPowerOfTwo(_)
IsPowerOfTwo(n) ==
    IF n <= 0 THEN FALSE
    ELSE IF n = 1 THEN TRUE
    ELSE n % 2 = 0 /\ IsPowerOfTwo(n \div 2)

\* Config::validate, the audio settings: TRUE for Ok(()), FALSE for the error
Validate(cfg) ==
    /\ ~(cfg.sample_rate = 0)
    /\ ~(cfg.buffer_size = 0 \/ ~IsPowerOfTwo(cfg.buffer_size))
    /\ ~(cfg.fft_size = 0 \/ ~IsPowerOfTwo(cfg.fft_size))

\* the configurations a file may hold
Configs ==
    [sample_rate : {0, 44100, 48000}, buffer_size : 0..MaxSize,
     fft_size : 0..MaxSize]

\* AudioAnalyzer::new: it has no error path of its own.  With buffer_size 0
\* and a non-zero rate, history_size is +inf cast to usize::MAX and
\* VecDeque::with_capacity panics; what the FFT planner does with length 0 is
\* the library's business; every other configuration yields an analyzer.
AnalyzerNew(cfg) ==
    IF cfg.buffer_size = 0 /\ cfg.sample_rate # 0 THEN {"panic"}
    ELSE IF cfg.fft_size = 0 THEN {"ok", "panic"}
    ELSE {"ok"}

\* `let mut config = Config::load(&args.config)?`: the file is parsed, and
\* nothing more
MainLoad ==
    /\ boot = "init"
    /\ \E cfg \in Configs : config' = cfg
    /\ boot' = "loaded"
    /\ UNCHANGED <<avars, evars, hvars, svars, call, ret>>

\* `Arc::new(AudioSystem::new(&config.audio)?)`, which builds the capture
\* system and the analyzer from the configuration as loaded
MainNew ==
    /\ boot = "loaded"
    /\ \E outcome \in AnalyzerNew(config) :
          boot' = IF outcome = "ok" THEN "constructed" ELSE "panicked"
    /\ UNCHANGED <<avars, evars, hvars, svars, config, call, ret>>

\* `tokio::spawn(async move { audio_system.start().await })`
MainStart ==
    /\ boot = "constructed"
    /\ boot' = "started"
    /\ UNCHANGED <<avars, evars, hvars, svars, config, call, ret>>

----------------------------------------------------------------------------
(* Single calls of the analyzer's functions *)

\* a call that did not return
Panic == [kind |-> "panic"]
Returned(v) == [kind |-> "ok", value |-> v]

\* all sequences over S of length 0..n
SeqsUpTo(S, n) == UNION {[1..k -> S] : k \in 0..n}

\* the inner loop of convert_to_mono: the sum of one sample period
RECURSIVE SumChannels(_, _, _, _)
SumChannels(samples, frame, nchannels, channel) ==
    IF channel = nchannels THEN 0
    ELSE samples[frame * nchannels + channel + 1]
         + SumChannels(samples, frame, nchannels, channel + 1)

\* (mutant) the sum of a sample period is halved, whatever the channel count
ConvertToMonoHalved(samples, nchannels) ==
    IF nchannels = 1 THEN Returned(samples)
    ELSE IF nchannels = 0 THEN Panic
    ELSE LET frame_count == Len(samples) \div nchannels
         IN  Returned([frame \in 1..frame_count |->
                          <<SumChannels(samples, frame - 1, nchannels, 0), 2>>])

\* convert_to_mono: one channel passes through; otherwise frame_count is
\* `samples.len() / channels as usize`, which panics for channels = 0, and
\* each output sample is `sum / channels as f32`, kept as the fraction
\* <<sum, channels>>
ConvertToMono(samples, nchannels) ==
    IF nchannels = 1 THEN Returned(samples)
    ELSE IF nchannels = 0 THEN Panic
    ELSE LET frame_count == Len(samples) \div nchannels
         IN  Returned([frame \in 1..frame_count |->
                          <<SumChannels(samples, frame - 1, nchannels, 0),
                            nchannels>>])

\* the values a sample takes in single calls
SampleValues == {-2, 1, 2, 3, 4}

\* one call is looked at per behaviour: the functions keep nothing between calls
CallConvertToMono ==
    /\ call = NoCall
    /\ \E samples \in SeqsUpTo(SampleValues, MaxSamples), nchannels \in 0..MaxChannels :
           /\ call' = [fn |-> "convert_to_mono", samples |-> samples,
                       channels |-> nchannels]
           /\ ret' = ConvertToMono(samples, nchannels)
           /\ UNCHANGED <<avars, evars, hvars, svars, config, boot>>

\* ---- the spectrum: perform_fft (analysis.rs:232-265) and
\* calculate_spectral_rolloff (analysis.rs:456-475)

\* magnitudes are counted in halves: level h is the f32 magnitude h / 2, so
\* that magnitudes below, at and above 1.0 occur
MagUnit == 2

\* bin_frequencies of n bins: `i as f32 * sample_rate / fft_size as f32`
\* with fft_size = 2 * (n - 1), as fractions
BinFrequencies(n, sample_rate) ==
    [i \in 1..n |-> <<(i - 1) * sample_rate, 2 * (n - 1)>>]

\* Iterator::max_by folds with `match compare(&x, &y) { Greater => x, _ => y }`:
\* the later of two equal elements is kept.  Indices here start at 1.
RECURSIVE MaxBy(_, _, _)
MaxBy(bins, i, best) ==
    IF i > Len(bins) THEN best
    ELSE MaxBy(bins, i + 1, IF bins[best] > bins[i] THEN best ELSE i)

\* the peak of perform_fft: peak_bin and bin_frequencies[peak_bin]
PeakFrequency(bins, bin_frequencies) ==
    LET peak_bin == MaxBy(bins, 2, 1)
    IN  [peak_bin |-> peak_bin - 1, peak_frequency |-> bin_frequencies[peak_bin]]

\* `bins.iter().map(|x| x * x).sum()`, in units of 1 / MagUnit^2
SpectralEnergy(bins) == SeqSum([i \in 1..Len(bins) |-> bins[i] * bins[i]])

\* the scan of calculate_spectral_rolloff from bin i on: the first bin whose
\* cumulative magnitude is >= spectral_energy * 0.85, or 0 when the scan ends
\* (0 is also what rolloff_bin starts as)
RECURSIVE RolloffScan(_, _, _, _)
RolloffScan(bins, i, cumulative_energy, spectral_energy) ==
    IF i > Len(bins) THEN [rolloff_bin |-> 0, reached |-> FALSE]
    ELSE LET cumulative == cumulative_energy + bins[i]
         IN  IF cumulative * MagUnit * 100 >= spectral_energy * 85
             THEN [rolloff_bin |-> i - 1, reached |-> TRUE]
             ELSE RolloffScan(bins, i + 1, cumulative, spectral_energy)

\* calculate_spectral_rolloff: `if rolloff_bin == 0 { rolloff_bin = len - 1 }`
\* follows the scan
CalculateSpectralRolloff(bins, bin_frequencies) ==
    LET scan == RolloffScan(bins, 1, 0, SpectralEnergy(bins))
        rolloff_bin == IF scan.rolloff_bin = 0 THEN Len(bins) - 1
                       ELSE scan.rolloff_bin
    IN  [reached |-> scan.reached, first |-> scan.rolloff_bin,
         rolloff_bin |-> rolloff_bin,
         spectral_rolloff |-> bin_frequencies[rolloff_bin + 1]]

\* the spectra of single calls: 2..MaxBins bins of levels 0..MaxMag
Spectra == UNION {[1..n -> 0..MaxMag] : n \in 2..MaxBins}

CallPerformFft ==
    /\ call = NoCall
    /\ \E bins \in Spectra :
           /\ call' = [fn |-> "perform_fft", bins |-> bins]
           /\ ret' = PeakFrequency(bins, BinFrequencies(Len(bins), config.sample_rate))
           /\ UNCHANGED <<avars, evars, hvars, svars, config, boot>>

CallSpectralRolloff ==
    /\ call = NoCall
    /\ \E bins \in Spectra :
           /\ call' = [fn |-> "calculate_spectral_rolloff", bins |-> bins]
           /\ ret' = CalculateSpectralRolloff(
                         bins, BinFrequencies(Len(bins), config.sample_rate))
           /\ UNCHANGED <<avars, evars, hvars, svars, config, boot>>

(* calculate_zero_crossing_rate.  A sample is an f32.  Only its sign and   *)
(* whether it is so small that its product with another such sample is     *)
(* below the smallest f32 (2^-149) matter here: Tiny stands for any        *)
(* magnitude under 2^-75, FullScale for 1.0.                               *)
Tiny == 1
FullScale == 2
WaveValues == {-FullScale, -Tiny, 0, Tiny, FullScale}
Abs(x) == IF x < 0 THEN -x ELSE x

(* window[0] * window[1] in f32: the product of two tiny samples rounds    *)
(* to (signed) zero.                                                       *)
F32Mul(a, b) == IF Abs(a) = Tiny /\ Abs(b) = Tiny THEN 0 ELSE a * b

RECURSIVE Crossings(_, _)
Crossings(waveform, i) ==
    IF i >= Len(waveform) THEN 0
    ELSE (IF F32Mul(waveform[i], waveform[i + 1]) < 0 THEN 1 ELSE 0)
         + Crossings(waveform, i + 1)

RECURSIVE CrossingsOrZero(_, _)
CrossingsOrZero(waveform, i) ==
    IF i >= Len(waveform) THEN 0
    ELSE (IF F32Mul(waveform[i], waveform[i + 1]) <= 0 THEN 1 ELSE 0)
         + CrossingsOrZero(waveform, i + 1)

CalculateZeroCrossingRateOrZero(waveform) ==
    IF Len(waveform) < 2 THEN <<0, 1>>
    ELSE <<CrossingsOrZero(waveform, 1), Len(waveform) - 1>>

CalculateZeroCrossingRate(waveform) ==
    IF Len(waveform) < 2 THEN <<0, 1>>
    ELSE <<Crossings(waveform, 1), Len(waveform) - 1>>

CallZeroCrossingRate ==
    /\ call = NoCall
    /\ \E waveform \in SeqsUpTo(WaveValues, MaxSamples) :
           /\ call' = [fn |-> "calculate_zero_crossing_rate",
                       waveform |-> waveform]
           /\ ret' = CalculateZeroCrossingRate(waveform)
           /\ UNCHANGED <<avars, evars, hvars, svars, config, boot>>

(* extract_frequency_band, called by extract_features once per band.       *)
(* Frequencies are doubled (the unit is 0.5 Hz) so that sample_rate / 2.0  *)
(* is the integer sample_rate; a weight is counted in tenths; ln is known  *)
(* at the integer means below, in hundredths.                              *)
BandNames == {"sub_bass", "bass", "low_mid", "mid", "high_mid", "presence",
              "brilliance"}

\* extract_features: the (low_freq, high_freq) of each band, doubled
BandEdges(band, sample_rate) ==
    CASE band = "sub_bass"   -> <<40, 120>>
      [] band = "bass"       -> <<120, 500>>
      [] band = "low_mid"    -> <<500, 1000>>
      [] band = "mid"        -> <<1000, 4000>>
      [] band = "high_mid"   -> <<4000, 8000>>
      [] band = "presence"   -> <<8000, 12000>>
      [] band = "brilliance" -> <<12000, sample_rate>>

\* 100 * ln(m + 1), rounded
LnArgs == {0, 1, 2, 3, 1000}
Ln1pCenti(m) ==
    CASE m = 0    -> 0
      [] m = 1    -> 69
      [] m = 2    -> 110
      [] m = 3    -> 139
      [] m = 1000 -> 691

Smaller(a, b) == IF a < b THEN a ELSE b

\* `((freq / nyquist) * bins.len() as f32) as usize` for a doubled frequency
BinOf(freq2, sample_rate, len) == (freq2 * len) \div sample_rate
LowBin(bins, sample_rate, low2) ==
    Smaller(BinOf(low2, sample_rate, Len(bins)), Len(bins) - 1)
\* (mutant) the upper index is clamped to the last bin, which is then never
\* part of a band
HighBinShort(bins, sample_rate, high2) ==
    Smaller(BinOf(high2, sample_rate, Len(bins)), Len(bins) - 1)

HighBin(bins, sample_rate, high2) ==
    Smaller(BinOf(high2, sample_rate, Len(bins)), Len(bins))

\* bins[low_bin..high_bin] (0-based, high_bin excluded)
BandOf(bins, sample_rate, low2, high2) ==
    SubSeq(bins, LowBin(bins, sample_rate, low2) + 1,
           HighBin(bins, sample_rate, high2))

\* the weight chosen from center_freq = (low_freq + high_freq) / 2.0
FreqWeight(low2, high2) ==
    IF low2 + high2 < 4 * 1000 THEN 15
    ELSE IF low2 + high2 < 4 * 4000 THEN 10
    ELSE 8

ExtractFrequencyBand(bins, sample_rate, low2, high2) ==
    LET band == BandOf(bins, sample_rate, low2, high2)
        band_energy == SeqSum(band)
        band_width == Len(band)
        avg_energy == band_energy \div band_width
        log_energy == IF avg_energy > 0 THEN Ln1pCenti(avg_energy) ELSE 0
        freq_weight == FreqWeight(low2, high2)
    IN  IF HighBin(bins, sample_rate, high2)
               <= LowBin(bins, sample_rate, low2)
        THEN [kind |-> "ok", value |-> <<0, 1>>, freq_weight |-> 0,
              low_bin |-> LowBin(bins, sample_rate, low2),
              high_bin |-> HighBin(bins, sample_rate, high2)]
        ELSE [kind |-> "ok",
              value |-> RatMin(<<log_energy * freq_weight, 10000>>,
                               <<1, 1>>),
              freq_weight |-> freq_weight,
              low_bin |-> LowBin(bins, sample_rate, low2),
              high_bin |-> HighBin(bins, sample_rate, high2)]

\* sample rates of an analyzer and spectra whose band means ln is known at
BandRates == {200, 2000, 8000, 44100}
BandSpectra == UNION {[1..n -> LnArgs] : n \in 2..MaxBins}
MeanKnown(band) ==
    band # <<>> => /\ SeqSum(band) % Len(band) = 0
                   /\ SeqSum(band) \div Len(band) \in LnArgs

CallExtractFrequencyBand ==
    /\ call = NoCall
    /\ \E sample_rate \in BandRates, name \in BandNames, bins \in BandSpectra :
           LET edges == BandEdges(name, sample_rate)
           IN  /\ MeanKnown(BandOf(bins, sample_rate, edges[1], edges[2]))
               /\ call' = [fn |-> "extract_frequency_band", band |-> name,
                           sample_rate |-> sample_rate, bins |-> bins]
               /\ ret' = ExtractFrequencyBand(bins, sample_rate,
                                              edges[1], edges[2])
               /\ UNCHANGED <<avars, evars, hvars, svars, config, boot>>

(* create_hann_window.  A weight is an f32: either NaN or a number, kept   *)
(* in thousandths.  cos is known at the fractions of a turn that the       *)
(* window sizes below ask for.                                             *)
NaN == [finite |-> FALSE, milli |-> 0]
Finite(m) == [finite |-> TRUE, milli |-> m]

\* 1000 * cos(2 * PI * n / d), rounded, for d in {1, 3, 7}
CosTurnMilli(n, d) ==
    CASE n = 0 \/ n = d                      -> 1000
      [] d = 3                               -> -500
      [] d = 7 /\ (n = 1 \/ n = 6)           -> 623
      [] d = 7 /\ (n = 2 \/ n = 5)           -> -223
      [] d = 7 /\ (n = 3 \/ n = 4)           -> -901

\* `0.5 * (1.0 - phase.cos())` with
\* `phase = 2.0 * PI * i as f32 / (size - 1) as f32`: for size = 1 the
\* quotient is 0.0 / 0.0, which is NaN in f32 and stays NaN
HannWeight(i, size) ==
    IF size - 1 = 0 THEN NaN
    ELSE Finite((1000 - CosTurnMilli(i, size - 1)) \div 2)

CreateHannWindow(size) == [k \in 1..size |-> HannWeight(k - 1, size)]

\* the transform sizes validation accepts, up to MaxSize
HannSizes == {n \in 1..MaxSize : IsPowerOfTwo(n)}

CallCreateHannWindow ==
    /\ call = NoCall
    /\ \E size \in HannSizes :
           /\ call' = [fn |-> "create_hann_window", size |-> size]
           /\ ret' = [kind |-> "ok", window |-> CreateHannWindow(size)]
           /\ UNCHANGED <<avars, evars, hvars, svars, config, boot>>

(* prepare_fft_input.  fft_input is the vector the last frame left behind: *)
(* Stale marks such a left-over value.                                     *)
Stale == 9

\* `for i in 0..pad_size { self.fft_input[i] = 0.0; }`
ZeroFront(fft_input, pad_size) ==
    [i \in 1..Len(fft_input) |-> IF i <= pad_size THEN 0 ELSE fft_input[i]]

\* (mutant) the front of a short buffer's input is not zeroed
ExtractSamplesNoPad(buf, fft_input) ==
    LET buffer_size == Len(buf)
        fft_size == Len(fft_input)
    IN  IF buffer_size >= fft_size
        THEN CopyFromSliceAt(fft_input, 0,
                             SubSeq(buf, buffer_size - fft_size + 1,
                                    buffer_size))
        ELSE CopyFromSliceAt(fft_input, fft_size - buffer_size, buf)

\* prepare_fft_input before the window is applied
ExtractSamples(buf, fft_input) ==
    LET buffer_size == Len(buf)
        fft_size == Len(fft_input)
    IN  IF buffer_size >= fft_size
        THEN CopyFromSliceAt(fft_input, 0,
                             SubSeq(buf, buffer_size - fft_size + 1,
                                    buffer_size))
        ELSE CopyFromSliceAt(ZeroFront(fft_input, fft_size - buffer_size),
                             fft_size - buffer_size, buf)

\* `*sample *= window_val` over fft_input zipped with the window
ApplyWindow(fft_input, window) ==
    [i \in 1..Smaller(Len(fft_input), Len(window)) |->
        fft_input[i] * window[i]]

PrepareFftInput(buf, fft_input, window) ==
    ApplyWindow(ExtractSamples(buf, fft_input), window)

\* buffers, left-over inputs and windows (weights in halves) of a call
FftBuffers == SeqsUpTo({1, 2}, MaxFft)
FftInputs == UNION {[1..n -> {0, Stale}] : n \in 0..MaxFft}
FftWindows(n) == [1..n -> {0, 1}]

CallPrepareFftInput ==
    /\ call = NoCall
    /\ \E buf \in FftBuffers, fft_input \in FftInputs :
           \E window \in FftWindows(Len(fft_input)) :
               /\ call' = [fn |-> "prepare_fft_input", input_buffer |-> buf,
                           fft_input |-> fft_input, window |-> window]
               /\ ret' = [kind |-> "ok",
                          extracted |-> ExtractSamples(buf, fft_input),
                          fft_input |-> PrepareFftInput(buf, fft_input, window)]
               /\ UNCHANGED <<avars, evars, hvars, svars, config, boot>>

----------------------------------------------------------------------------
(* Specifications *)

\* a short session: a steady signal, and up to MaxOdd frames that depart
\* from it
Init == InitAnalyzer /\ InitSystem /\ InitBooted /\ env \in {Silence, Quiet, Track}
Next == EnvFrame(MaxFrames) \/ OddFrame(MaxFrames, MaxOdd)
Spec == Init /\ [][Next]_vars

\* a long session on a beat track, long enough to fill every history
InitLong == InitAnalyzer /\ InitSystem /\ InitBooted /\ env = SlowTrack
NextLong == EnvFrame(LongFrames) \/ GlitchFrame
SpecLong == InitLong /\ [][NextLong]_vars

\* a beat track that may fall silent at any frame, with failed transforms
NextFade ==
    \/ EnvFrame(FadeFrames)
    \/ FailedFrame(FadeFrames, MaxOdd)
    \/ GoSilent
SpecFade == InitLong /\ [][NextFade]_vars

\* a few frames of arbitrary chunks
InitBuf == InitAnalyzer /\ InitSystem /\ InitBooted /\ env = Unscripted
NextBuf == AnyChunkFrame
SpecBuf == InitBuf /\ [][NextBuf]_vars

\* the audio system: one caller, the tasks it spawns, the streams' callbacks
InitSys == InitAnalyzer /\ InitSystem /\ InitBooted /\ env = Unscripted
NextSys ==
    \/ Start(MaxTasks) \/ Stop \/ ChangeDevice \/ ChgDone
    \/ \E w \in Threads : CsLock(w)
    \/ \E w \in Threads : CsSender(w)
    \/ \E w \in Threads : CsStream(w)
    \/ \E w \in Threads : CsStore(w)
    \/ \E w \in Threads : CxStream(w)
    \/ \E w \in Threads : CxLock(w)
    \/ \E w \in Threads : CxClear(w)
    \/ \E t \in 1..Len(tasks) : LoopCheck(t)
    \/ \E t \in 1..Len(tasks) : LoopRecv(t)
    \/ \E t \in 1..Len(tasks) : LoopProcess(t)
    \/ \E t \in 1..Len(tasks) : LoopSend(t)
    \/ \E t \in 1..Len(tasks) : LoopRxErr(t)
    \/ \E st \in 1..Len(streams) : CbCapture(st)
    \/ \E st \in 1..Len(streams) : CbSend(st)
SpecSys == InitSys /\ [][NextSys]_vars

\* every thread that can take a step is scheduled, and a callback in flight
\* returns; whether the caller makes another call, and whether the device
\* delivers another frame, is left open
Scheduled ==
    \/ ChgDone
    \/ \E w \in Threads : CsLock(w)
    \/ \E w \in Threads : CsSender(w)
    \/ \E w \in Threads : CsStream(w)
    \/ \E w \in Threads : CsStore(w)
    \/ \E w \in Threads : CxStream(w)
    \/ \E w \in Threads : CxLock(w)
    \/ \E w \in Threads : CxClear(w)
    \/ \E t \in 1..Len(tasks) : LoopCheck(t)
    \/ \E t \in 1..Len(tasks) : LoopRecv(t)
    \/ \E t \in 1..Len(tasks) : LoopProcess(t)
    \/ \E t \in 1..Len(tasks) : LoopSend(t)
    \/ \E t \in 1..Len(tasks) : LoopRxErr(t)
    \/ \E st \in 1..Len(streams) : CbSend(st)
SpecSysFair == SpecSys /\ WF_vars(Scheduled)

\* start-up; the analyzer's variables hold what a fresh analyzer of the
\* model's size would, and count only once boot says it is constructed
InitMain ==
    /\ InitAnalyzer /\ InitSystem /\ env = Unscripted
    /\ config = DefaultConfig /\ boot = "init" /\ call = NoCall /\ ret = NoCall
NextMain == MainLoad \/ MainNew \/ MainStart
SpecMain == InitMain /\ [][NextMain]_vars

\* single calls of the analyzer's functions, on arguments of every shape
NextCalls ==
    \/ CallConvertToMono
    \/ CallPerformFft
    \/ CallSpectralRolloff
    \/ CallZeroCrossingRate
    \/ CallExtractFrequencyBand
    \/ CallCreateHannWindow
    \/ CallPrepareFftInput
SpecCalls == InitSys /\ [][NextCalls]_vars

\* the audio system started, stopped and started again; the device is
\* never changed
NextRestart ==
    \/ Start(MaxTasks) \/ Stop \/ Restart
    \/ \E w \in Threads : CsLock(w)
    \/ \E w \in Threads : CsSender(w)
    \/ \E w \in Threads : CsStream(w)
    \/ \E w \in Threads : CsStore(w)
    \/ \E w \in Threads : CxStream(w)
    \/ \E w \in Threads : CxLock(w)
    \/ \E w \in Threads : CxClear(w)
    \/ \E t \in 1..Len(tasks) : LoopCheck(t)
    \/ \E t \in 1..Len(tasks) : LoopRecv(t)
    \/ \E t \in 1..Len(tasks) : LoopProcess(t)
    \/ \E t \in 1..Len(tasks) : LoopSend(t)
    \/ \E t \in 1..Len(tasks) : LoopRxErr(t)
    \/ \E st \in 1..Len(streams) : CbCapture(st)
    \/ \E st \in 1..Len(streams) : CbSend(st)
SpecRestart == InitSys /\ [][NextRestart]_vars

\* the audio system when start() may be called once more than SpecSys allows
NextAgain ==
    \/ Start(MaxTasks + 1) \/ Stop \/ ChangeDevice \/ ChgDone
    \/ \E w \in Threads : CsLock(w)
    \/ \E w \in Threads : CsSender(w)
    \/ \E w \in Threads : CsStream(w)
    \/ \E w \in Threads : CsStore(w)
    \/ \E w \in Threads : CxStream(w)
    \/ \E w \in Threads : CxLock(w)
    \/ \E w \in Threads : CxClear(w)
    \/ \E t \in 1..Len(tasks) : LoopCheck(t)
    \/ \E t \in 1..Len(tasks) : LoopRecv(t)
    \/ \E t \in 1..Len(tasks) : LoopProcess(t)
    \/ \E t \in 1..Len(tasks) : LoopSend(t)
    \/ \E t \in 1..Len(tasks) : LoopRxErr(t)
    \/ \E st \in 1..Len(streams) : CbCapture(st)
    \/ \E st \in 1..Len(streams) : CbSend(st)
SpecAgain == InitSys /\ [][NextAgain]_vars

----------------------------------------------------------------------------
(* Claims about the analyzer *)

\* a step that is one process_frame call
FrameStep == frames' = frames + 1

Reported(o) == o.kind = "ok" /\ o.beat_confidence[1] # 0

\* C1: after construction and after any sequence of process_frame calls, with
\* chunks of any length (0 and lengths above buffer_size included), the
\* sliding buffer holds exactly buffer_size samples: the last buffer_size
\* elements of buffer_size zeros followed by every chunk in arrival order.
\* An empty chunk adds nothing to `arrived`, so it leaves the buffer as it was.
C1_SlidingBuffer ==
    /\ Len(input_buffer) = BufferSize
    /\ input_buffer = LastN(Zeros(BufferSize) \o arrived, BufferSize)

\* C1 witness: a chunk longer than the buffer, then an empty chunk
C1_Witness ==
    /\ frames = 2
    /\ Len(arrived) = BufferSize + 1
    /\ out.kind = "ok"
    /\ out.waveform = <<>>
    /\ input_buffer[BufferSize] = 2
    /\ input_buffer[1] = 1

\* C2: a frame processed while either history holds fewer than 11 entries
\* reports beat_confidence 0 whatever its volume and bass are, and so does
\* each of the first 11 frames of a session.
C2_NoBeatBeforeWarmUp ==
    [][(FrameStep /\ out'.kind = "ok"
        /\ (Len(volume_history) < HistoryMin + 1
            \/ Len(bass_history) < HistoryMin + 1
            \/ frames' <= HistoryMin + 1))
       => out'.beat_confidence = Zero]_vars

\* C2 witness: the 11th frame of a session was loud against a quiet past
C2_Witness ==
    /\ frames = HistoryMin + 1
    /\ env = Quiet
    /\ out.kind = "ok"
    /\ out.volume = 40
    /\ out.bass = 40
    /\ Len(volume_history) = HistoryMin + 1

\* C3: a frame reports a non-zero beat_confidence only if its volume exceeds
\* 1.5 times the mean of the last 5 volume-history entries and its bass exceeds
\* 1.3 times the mean of the last 5 bass-history entries, neither mean being 0
\* (a ratio over a zero mean counts as 1.0, which is no candidate).
C3_RatiosNeeded ==
    [][(FrameStep /\ Reported(out'))
       => /\ RecentSum(volume_history) > 0
          /\ RecentSum(bass_history) > 0
          /\ 10 * out'.volume > 3 * RecentSum(volume_history)
          /\ 50 * out'.bass > 13 * RecentSum(bass_history)]_vars

\* C3 witness: a frame has reported a non-zero confidence
C3_Witness == Reported(out) /\ env = Quiet

\* C4: a frame reports a non-zero beat_confidence only when at least 100 ms
\* have passed since every beat accepted so far, so any two accepted beats are
\* at least 100 ms apart, however fast the frames arrive.
C4_Debounce ==
    [][(FrameStep /\ (Reported(out') \/ beat_times' # beat_times))
       => \A i \in DOMAIN beat_times :
              clock' - beat_times[i] >= BeatMinGapMs]_vars

\* C4 witness: two beats were accepted 120 ms apart with a frame in between
C4_Witness ==
    /\ Len(beat_times) = 2
    /\ beat_times[2] - beat_times[1] = 120
    /\ frames = 14

\* C5: a frame whose confidence exceeds 0.3, and no other frame, appends one
\* interval to the tempo history and moves the last-beat timestamp to the time
\* the frame is processed at; every other frame (failed, confidence 0, or
\* 0 < confidence <= 0.3) leaves both as they were.
C5_AcceptedOnlyAboveThreshold ==
    [][FrameStep
       => IF out'.kind = "ok" /\ RatGt(out'.beat_confidence, AcceptMin)
          THEN /\ tempo_buffer' =
                      LastN(Append(tempo_buffer, clock' - last_beat_time),
                            TempoCapacity)
               /\ last_beat_time' = clock'
          ELSE /\ tempo_buffer' = tempo_buffer
               /\ last_beat_time' = last_beat_time]_vars

\* C5 witness: a frame reported a confidence above 0 and not above 0.3, and
\* no beat has been recorded
C5_Witness ==
    /\ Reported(out)
    /\ ~RatGt(out.beat_confidence, AcceptMin)
    /\ tempo_buffer = <<>>
    /\ last_beat_time = 0

\* C6: the tempo a frame reports is 0 when the tempo history holds fewer than
\* 4 intervals after the frame's beat detection, and otherwise 60 divided by
\* the mean of the intervals held, which is 60000 ms * count / sum of the
\* intervals in ms; four intervals of 0.5 s give 120 BPM.
C6_Tempo ==
    /\ out.kind = "ok"
       => IF Len(tempo_buffer) < 4
          THEN out.tempo[1] = 0
          ELSE out.tempo = Reduced(60000 * Len(tempo_buffer),
                                   SeqSum(tempo_buffer))
    /\ EstimateTempo(<<500, 500, 500, 500>>) = <<120, 1>>

\* C6 witness: a frame reported 120 BPM from a full tempo history
C6_Witness ==
    /\ out.kind = "ok"
    /\ Len(tempo_buffer) = TempoCapacity
    /\ out.tempo = <<120, 1>>

\* C7: the volume and bass histories hold the same number of entries,
\* min(successful frames, 100), the tempo history at most 32, and each holds
\* the most recent entries in arrival order.
C7_BoundedFifos ==
    /\ Len(volume_history) = Len(bass_history)
    /\ Len(volume_history) = IF Len(vol_log) < 100 THEN Len(vol_log) ELSE 100
    /\ Len(tempo_buffer) <= 32
    /\ volume_history = LastN(vol_log, 100)
    /\ bass_history = LastN(bass_log, 100)
    /\ tempo_buffer = LastN(interval_log, 32)

\* C7 witness: more than 100 frames succeeded, one failed, and more than 32
\* beats were accepted
C7_Witness ==
    /\ Len(vol_log) > MaxHistory
    /\ Len(vol_log) < frames
    /\ Len(interval_log) > TempoCapacity

\* ---- claims about the audio system

\* what task t dequeued, what it analysed, and the DataReady events it sent
OfTask(log, t) == SelectSeq(log, LAMBDA e : e.task = t)
Analysed(t) == SelectSeq(OfTask(analysed, t), LAMBDA e : e.ok)
DataReady(t) == SelectSeq(OfTask(events, t), LAMBDA e : e.kind = "DataReady")
AtPc(t, pc) == IF tasks[t].pc = pc THEN 1 ELSE 0

\* C8: in every processing loop, each frame the loop dequeues is analysed
\* exactly once (the frame in hand is analysed next), and the DataReady
\* events the loop has sent are, one for one and in the order of dequeuing,
\* the frames it analysed successfully, each event carrying its frame's
\* timestamp (the event of the frame in hand is sent next).
C8_OneEventPerFrame ==
    \A t \in 1..Len(tasks) :
        LET D == OfTask(dequeued, t)
            A == OfTask(analysed, t)
            E == DataReady(t)
        IN  /\ \A i, j \in 1..Len(D) : i < j => D[i].id # D[j].id
            /\ Len(A) = Len(D) - AtPc(t, "process")
            /\ \A i \in 1..Len(A) : A[i].id = D[i].id
            /\ Len(E) = Len(Analysed(t)) - AtPc(t, "send")
            /\ \A i \in 1..Len(E) : /\ E[i].id = Analysed(t)[i].id
                                    /\ E[i].timestamp = Analysed(t)[i].timestamp

\* a loop has dequeued two frames, analysed both and sent their two events
\* in that order
C8_Witness ==
    \E t \in 1..Len(tasks) :
        /\ Len(OfTask(dequeued, t)) = 2
        /\ Len(DataReady(t)) = 2
        /\ DataReady(t)[1].id = OfTask(dequeued, t)[1].id
        /\ DataReady(t)[2].id = OfTask(dequeued, t)[2].id
        /\ DataReady(t)[1].timestamp # DataReady(t)[2].timestamp

\* a step in which process_frame returns the transform's error
Failure == FrameStep /\ out'.kind = "err"

\* C9: when the transform fails for a frame, that step sends no event and
\* leaves the volume history, the bass history, the tempo history and the
\* last-beat timestamp as they were, the loop that held the frame is back at
\* its head with the same analyzer, and no DataReady event is ever sent for
\* the frame.
C9_FailedFrameSkipped ==
    /\ [][Failure =>
             /\ events' = events
             /\ volume_history' = volume_history
             /\ bass_history' = bass_history
             /\ tempo_buffer' = tempo_buffer
             /\ last_beat_time' = last_beat_time
             /\ \A t \in 1..Len(tasks) :
                   tasks'[t] # tasks[t] =>
                       tasks[t].pc = "process" /\ tasks'[t].pc = "check"]_vars
    /\ [](\A i \in 1..Len(analysed) : \A j \in 1..Len(events) :
             (~analysed[i].ok /\ events[j].kind = "DataReady")
                => events[j].id # analysed[i].id)

\* a loop failed on a frame, sent nothing for it, and then analysed the next
\* frame and sent its event
C9_Witness ==
    \E t \in 1..Len(tasks) :
        LET A == OfTask(analysed, t)
        IN  /\ Len(A) = 2
            /\ ~A[1].ok /\ A[2].ok
            /\ Len(volume_history) = 1
            /\ Len(DataReady(t)) = 1
            /\ DataReady(t)[1].id = A[2].id

\* C10: the capture callback never blocks: in no interleaving with start(),
\* stop() and the processing task is a callback that has built its frame
\* waiting for another thread before it can hand the frame over.
C10_CallbackNeverWaits ==
    \A st \in 1..Len(streams) : streams[st].cb # "waiting"

\* the tasks that are in their processing loop, where process_frame is called
InLoop == {t \in 1..Len(tasks) : tasks[t].pc \in {"check", "recv", "process", "send"}}

\* C11: the analyzer is owned by a single processing task: whatever start(),
\* stop() and change_device() calls are made, at no time are two tasks in a
\* processing loop on the analyzer.
C11_SingleProcessingTask == Cardinality(InLoop) <= 1

AllEnded == \A t \in 1..Len(tasks) : tasks[t].pc = "ended"

----------------------------------------------------------------------------
(* Claims about start-up and about single functions of the analyzer *)

\* C13: an analyzer is only ever constructed from a validated configuration:
\* whenever main has built the audio system, or has started a session, the
\* configuration it used passes Config::validate.
C13_ValidatedConfigOnly == boot \in {"constructed", "started"} => Validate(config)

\* C14: for c >= 2 channels the downmix of s has floor(Len(s)/c) samples,
\* sample k being the average of s[k*c .. k*c+c-1], the trailing Len(s) mod c
\* samples being ignored (stereo [1,2,3,4] gives [1.5, 3.5]); for c = 1 the
\* output is s unchanged.
C14_Downmix ==
    /\ call.fn = "convert_to_mono" =>
          LET s == call.samples
              c == call.channels
          IN  /\ c = 1 => ret = Returned(s)
              /\ c >= 2 =>
                    /\ ret.kind = "ok"
                    /\ Len(ret.value) = Len(s) \div c
                    /\ \A k \in 0..(Len(s) \div c) - 1 :
                          RatEq(ret.value[k + 1],
                                <<SeqSum(SubSeq(s, k * c + 1, k * c + c)), c>>)
    /\ ConvertToMono(<<1, 2, 3, 4>>, 2) = Returned(<<(<<3, 2>>), (<<7, 2>>)>>)

\* three channels, four samples: one averaged sample, the fourth sample ignored
C14_Witness ==
    /\ call.fn = "convert_to_mono"
    /\ call.channels = 3
    /\ call.samples = <<1, 2, 3, 4>>
    /\ ret = Returned(<<(<<6, 3>>)>>)

\* C15: ingesting a raw frame has no failure mode: for every sample sequence
\* and every channel count, 0 included, the downmix returns.
C15_IngestNeverFails == call.fn = "convert_to_mono" => ret.kind = "ok"

\* the frequency of bin k (from 0) of the spectrum of the call
FrequencyOfBin(k) == BinFrequencies(Len(call.bins), config.sample_rate)[k + 1]
MaxMagnitude(bins) == CHOOSE m \in 0..MaxMag + 1 :
    (\E i \in 1..Len(bins) : bins[i] = m) /\ \A i \in 1..Len(bins) : bins[i] <= m

\* C16: the peak frequency is the frequency of a bin of maximum magnitude,
\* and of the first (lowest-index) such bin when several share the maximum;
\* for an all-zero spectrum it is the frequency of bin 0.
C16_PeakIsFirstMaximum ==
    call.fn = "perform_fft" =>
        LET bins == call.bins
            first == CHOOSE k \in 0..Len(bins) - 1 :
                        /\ bins[k + 1] = MaxMagnitude(bins)
                        /\ \A l \in 0..k - 1 : bins[l + 1] < MaxMagnitude(bins)
        IN  /\ ret.peak_frequency = FrequencyOfBin(first)
            /\ (\A i \in 1..Len(bins) : bins[i] = 0) =>
                   ret.peak_frequency = FrequencyOfBin(0)

\* C17: the spectral rolloff is the frequency of the first bin at which the
\* running sum of magnitudes reaches 85% of the spectral energy, and bin 0's
\* frequency when that bin is bin 0.
C17_RolloffIsFirstBinReaching ==
    call.fn = "calculate_spectral_rolloff" =>
        (ret.reached => ret.spectral_rolloff = FrequencyOfBin(ret.first))

\* C18: for a spectrum of non-zero energy some bin's cumulative magnitude
\* reaches 0.85 times the sum of squared magnitudes, and the highest bin's
\* frequency is reported in place of the first such bin's only when the
\* energy is zero.
C18_HighestBinOnlyForZeroEnergy ==
    call.fn = "calculate_spectral_rolloff" =>
        /\ SpectralEnergy(call.bins) # 0 => ret.reached
        /\ (ret.reached /\ ret.spectral_rolloff # FrequencyOfBin(ret.first))
              => SpectralEnergy(call.bins) = 0

SignChange(w) == \E i, j \in 1..Len(w) : w[i] < 0 /\ w[j] > 0
Alternating(w) ==
    /\ Len(w) >= 2
    /\ \A i \in 1..Len(w) - 1 :
           \/ w[i] > 0 /\ w[i + 1] < 0
           \/ w[i] < 0 /\ w[i + 1] > 0
ZcrCalled == call.fn = "calculate_zero_crossing_rate"

BandWeight(band) ==
    CASE band \in {"sub_bass", "bass", "low_mid"} -> 15
      [] band \in {"mid", "high_mid"}             -> 10
      [] band \in {"presence", "brilliance"}      -> 8
BandCalled == call.fn = "extract_frequency_band"
CalledBand ==
    BandOf(call.bins, call.sample_rate,
           BandEdges(call.band, call.sample_rate)[1],
           BandEdges(call.band, call.sample_rate)[2])
CalledMean == SeqSum(CalledBand) \div Len(CalledBand)

(* C20: a band's energy is min(1.0, w * ln(mean magnitude + 1) / 10),      *)
(* compressed, then weighted, then clamped, where w is 1.5 for sub-bass,   *)
(* bass and low-mid, 1.0 for mid and high-mid, 0.8 for presence and        *)
(* brilliance at every valid sample rate; the result is within [0, 1].     *)
C20_BandEnergy ==
    BandCalled =>
        /\ RatGt(ret.value, <<0, 1>>) \/ RatEq(ret.value, <<0, 1>>)
        /\ ~RatGt(ret.value, <<1, 1>>)
        /\ CalledBand # <<>> =>
               RatEq(ret.value,
                     RatMin(<<1, 1>>,
                            <<BandWeight(call.band) * Ln1pCenti(CalledMean),
                              10000>>))

\* "approximately" as tests::test_hann_window takes it: within 1e-6 of 0
\* (here: 0 thousandths) and within 0.1 of 1
NearZero(w) == w.finite /\ w.milli = 0
NearOne(w) == w.finite /\ w.milli >= 900 /\ w.milli <= 1100

(* C21: for every transform size N that validation accepts, the Hann       *)
(* window has N finite weights within [0, 1], the first and the last are   *)
(* approximately 0 and the largest, at the centre, is approximately 1.     *)
C21_HannWindow ==
    call.fn = "create_hann_window" =>
        LET w == ret.window
            N == call.size
        IN  /\ ret.kind = "ok"
            /\ Len(w) = N
            /\ \A k \in 1..N : /\ w[k].finite
                               /\ 0 <= w[k].milli /\ w[k].milli <= 1000
            /\ NearZero(w[1]) /\ NearZero(w[N])
            /\ NearOne(w[(N + 1) \div 2])
            /\ \A k \in 1..N : w[k].milli <= w[(N + 1) \div 2].milli

------------------------------------------------------------------------------
(* Further claims about the analyzer and the audio system *)

\* the time between accepted beat j and the accepted beat after it
InterBeat(j) == beat_times[j + 1] - beat_times[j]

(* C22: every interval stored in tempo_buffer is the time elapsed between  *)
(* two consecutive accepted beats of the session.                          *)
C22_IntervalsAreInterBeat ==
    \A i \in DOMAIN tempo_buffer :
        \E j \in 1..Len(beat_times) - 1 : tempo_buffer[i] = InterBeat(j)

\* the confidence detect_beat would form for output o from the recent sums
\* vsum and bsum
ConfidenceFrom(o, vsum, bsum) ==
    Confidence(Ratio(o.volume, vsum), Ratio(o.bass, bsum))

(* C23: the beat detector of frame k reads the averages of the 5 frames     *)
(* processed before it, never frame k's own values, and the frame's volume  *)
(* and bass are appended to the histories exactly once, after detection.    *)
C23_ReadThenAppend ==
    [][(FrameStep /\ out'.kind = "ok")
       => /\ Reported(out')
             => out'.beat_confidence =
                    ConfidenceFrom(out', SeqSum(LastN(vol_log, RecentCount)),
                                   SeqSum(LastN(bass_log, RecentCount)))
          /\ vol_log' = Append(vol_log, out'.volume)
          /\ bass_log' = Append(bass_log, out'.bass)
          /\ volume_history' = LastN(vol_log', MaxHistory)
          /\ bass_history' = LastN(bass_log', MaxHistory)]_vars

\* C23 witness: a frame reported a beat that it would not have reported had
\* its own volume and bass been among the 5 values averaged
C23_Witness ==
    /\ Reported(out)
    /\ volume_history[Len(volume_history)] = out.volume
    /\ bass_history[Len(bass_history)] = out.bass
    /\ ~IsCandidate(Ratio(out.volume, RecentSum(volume_history)),
                    Ratio(out.bass, RecentSum(bass_history)))

(* C24: the transform input has exactly fft_size samples: the most recent  *)
(* fft_size samples of the sliding buffer when it has that many, otherwise *)
(* (fft_size - buffer_size) zeros followed by the whole buffer; nothing of *)
(* the earlier frame's input is left in it.  The window then multiplies    *)
(* each of these samples.                                                  *)
C24_TransformInput ==
    call.fn = "prepare_fft_input" =>
        LET buf == call.input_buffer
            fft_size == Len(call.fft_input)
            expected == IF Len(buf) >= fft_size
                        THEN LastN(buf, fft_size)
                        ELSE Zeros(fft_size - Len(buf)) \o buf
        IN  /\ Len(ret.extracted) = fft_size
            /\ ret.extracted = expected
            /\ \A i \in 1..fft_size : ret.extracted[i] # Stale
            /\ Len(ret.fft_input) = fft_size
            /\ \A i \in 1..fft_size :
                   ret.fft_input[i] = expected[i] * call.window[i]

\* C24 witness: a buffer shorter than the transform met an input full of
\* left-over values and was padded on the left
C24_Witness ==
    /\ call.fn = "prepare_fft_input"
    /\ call.input_buffer = <<1, 2>>
    /\ call.fft_input = <<Stale, Stale, Stale>>
    /\ ret.extracted = <<0, 1, 2>>

\* floor(freq / nyquist * N) for a doubled frequency, as the claim writes it
FloorBin(freq2, sample_rate, N) == (freq2 * N) \div sample_rate

(* C25: for a band [low, high] over N bins the bins averaged are the       *)
(* indices min(floor(low / nyquist * N), N - 1) up to but excluding        *)
(* min(floor(high / nyquist * N), N); they stay within 0..N-1, and an      *)
(* empty range gives energy 0.                                             *)
C25_BandBins ==
    BandCalled =>
        LET N == Len(call.bins)
            edges == BandEdges(call.band, call.sample_rate)
            lo == Smaller(FloorBin(edges[1], call.sample_rate, N), N - 1)
            hi == Smaller(FloorBin(edges[2], call.sample_rate, N), N)
            total == SeqSum([i \in 1..hi - lo |-> call.bins[lo + i]])
        IN  /\ ret.low_bin = lo /\ ret.high_bin = hi
            /\ 0 <= lo /\ lo <= N - 1 /\ 0 <= hi /\ hi <= N
            /\ IF hi <= lo
               THEN RatEq(ret.value, <<0, 1>>)
               ELSE /\ \A i \in lo..hi - 1 : i \in 0..N - 1
                    /\ RatEq(ret.value,
                             RatMin(<<1, 1>>,
                                    <<ret.freq_weight
                                        * Ln1pCenti(total \div (hi - lo)),
                                      10000>>))

\* C25 witness: both edges of a band lay beyond the spectrum, and the band
\* was its last bin
C25_Witness ==
    /\ BandCalled
    /\ call.band = "presence"
    /\ call.sample_rate = 2000
    /\ ret.low_bin = Len(call.bins) - 1
    /\ ret.high_bin = Len(call.bins)
    /\ RatGt(ret.value, <<0, 1>>)

TempoReported == out.kind = "ok" /\ out.tempo[1] # 0

(* C26: once a frame has reported a non-zero tempo, every later frame that *)
(* reports at all reports a non-zero tempo, however long the input stays   *)
(* silent; the tempo history is never cleared and never falls back below   *)
(* 4 intervals.                                                            *)
C26_TempoStays ==
    /\ [](TempoReported => [](out.kind = "ok" => out.tempo[1] # 0))
    /\ [][Len(tempo_buffer) >= TempoMinIntervals
          => Len(tempo_buffer') >= TempoMinIntervals]_vars

\* C26 witness: a tempo is still reported four silent frames after the
\* track's last beat
C26_Witness ==
    /\ TempoReported
    /\ env.name = "silence"
    /\ Len(vol_log) >= 4
    /\ \A i \in Len(vol_log) - 3..Len(vol_log) : vol_log[i] = 0

DeviceChanged == \E i \in DOMAIN events : events[i].kind = "DeviceChanged"
ReceiveErrors ==
    {i \in DOMAIN events :
        events[i].kind = "Error" /\ events[i].msg = "Receive error"}
CaptureFailedFor(t) ==
    \E i \in DOMAIN events :
        /\ events[i].kind = "Error"
        /\ events[i].msg = "Capture failed"
        /\ events[i].task = t

(* C27: after change_device() has returned successfully on a running       *)
(* audio system, the processing task is still in its loop (unless its own  *)
(* capture start failed) and no receive error has been published.          *)
C27_ChangeDeviceKeepsLoop ==
    (DeviceChanged /\ is_running) =>
        /\ ReceiveErrors = {}
        /\ \A t \in 1..Len(tasks) :
               tasks[t].pc \in {"rx_err", "ended"} => CaptureFailedFor(t)

\* stop() was the last of the start() and stop() calls and has returned, and
\* no change_device() has started capture
StopReturned ==
    /\ Len(tasks) > 0
    /\ ~is_running
    /\ ctl.pc = "idle"
    /\ ~DeviceChanged

(* C28: once stop() has returned, no capture stream is active and          *)
(* is_capturing() is false, in every interleaving of stop() with the       *)
(* spawned processing task.                                                *)
C28_StoppedMeansNoCapture ==
    StopReturned =>
        /\ ~is_capturing
        /\ current_stream = 0
        /\ \A st \in 1..Len(streams) : ~streams[st].alive

\* the samples the frame of this step brought
Brought == SubSeq(arrived', Len(arrived) + 1, Len(arrived'))

(* C29: a frame whose transform fails has been ingested: after the failed  *)
(* call the sliding buffer is what a successful call on the same frame     *)
(* leaves, so the next frame's window includes the failed frame's samples. *)
C29_FailedFrameIngested ==
    [][(FrameStep /\ out'.kind = "err")
       => /\ Len(arrived') >= Len(arrived)
          /\ SubSeq(arrived', 1, Len(arrived)) = arrived
          /\ input_buffer' = UpdateInputBuffer(input_buffer, Brought)
          /\ input_buffer' = LastN(Zeros(BufferSize) \o arrived', BufferSize)
          /\ UNCHANGED <<volume_history, bass_history, tempo_buffer>>]_vars

\* C29 witness: the first frame failed, the second succeeded, and the
\* buffer holds the sample of the first before that of the second
C29_Witness ==
    /\ frames = 2
    /\ out.kind = "ok"
    /\ Len(vol_log) = 1
    /\ arrived = <<1, 2>>
    /\ input_buffer = <<1, 2>>

(* C30: stopping the audio system never produces an AudioEvent::Error:     *)
(* whenever a processing loop finds its channel disconnected because of    *)
(* stop(), it ends without publishing a receive error.                     *)
C30_StopNeverErrors == ReceiveErrors = {}
====
